---- MODULE Spec2Model ----
(***************************************************************************)
(* Model of functions/trajectories/nrLUT_3D_GRAPPA.py: the GRAPPA-style    *)
(* 3D k-space pattern generator (grappa3D_pattern), the 32-to-16 bit split *)
(* of the sample count (split32to16), the summary step and the LUT export. *)
(***************************************************************************)
EXTENDS Integers, Sequences, FiniteSets, TLC

VARIABLES
    size_of_kspace,   \* <<ky_dim, kz_dim>>                       (line 12)
    acs_size,         \* <<acs ky, acs kz>>                       (line 13)
    Ry, Rz,           \* undersampling factors, already rounded   (lines 14-22)
    mask,             \* 0-based boolean grid, [ky][kz]           (line 72)
    samples,          \* sequence of <<ky_centered, kz_centered>> (line 72)
    AF,               \* <<mask.size, count_nonzero(mask)>>, the fraction of line 75
    NE,               \* samples.shape[0]                         (line 76)
    extent,           \* <<ky_min, kz_min, ky_max, kz_max>>       (lines 79-80)
    int32_value,      \* argument of split32to16, as <<v >> 16, v & 0xFFFF>>
    l16, h16,         \* the pair returned by split32to16         (line 103)
    file,             \* the lines written so far, as decimal text
    k,                \* position of the export loop in samples   (line 106)
    pc                \* position of the script

vars == <<size_of_kspace, acs_size, Ry, Rz, mask, samples, AF, NE, extent,
          int32_value, l16, h16, file, k, pc>>

\* ---------------------------------------------------------------- bounds
MaxDim == 5        \* grid dimensions 1..MaxDim on each axis
MaxAcsOver == 1    \* ACS dimensions 1..MaxDim+MaxAcsOver (the script does not validate)
MaxR == 3          \* undersampling factors 1..MaxR
Radius == 1        \* 16-bit words are drawn within Radius of the 16-bit landmarks
MaxOver == 2       \* number of upper words beyond the 32-bit range that are tried

\* ------------------------------------------------------- program constants
TwoTo15 == 32768
TwoTo16 == 65536
Mask16 == 65535

\* ------------------------------------------------------------- arithmetic
\* Python's round() on a float n/2: exact halves go to the even neighbour.
RoundHalf(n) ==
    IF n % 2 = 0 THEN n \div 2
    ELSE LET f == (n - 1) \div 2 IN IF f % 2 = 0 THEN f ELSE f + 1

\* y1 = round(cy - ACSdim/2) with cy = (dim + 1) / 2
AcsLow(dim, acs) == RoundHalf(dim + 1 - acs)
\* y2 = round(cy + ACSdim/2 - 1)
AcsHigh(dim, acs) == RoundHalf(dim + 1 + acs - 2)

\* The 0-based indices selected by the slice [start:stop] of an axis of length n.
SliceStart(start, n) ==
    IF start < 0 THEN (IF start + n < 0 THEN 0 ELSE start + n)
    ELSE IF start > n THEN n ELSE start

SliceIndices(start, stop, n) ==
    { i \in 0..(n - 1) : SliceStart(start, n) <= i /\ i < SliceStart(stop, n) }


\* -------------------------------------------------------- grappa3D_pattern
\* np.zeros((ky_dim, kz_dim), dtype=bool)
Zeros(ky_dim, kz_dim) ==
    [c \in (0..(ky_dim - 1)) \X (0..(kz_dim - 1)) |-> FALSE]

\* mask[y1-1:y2, z1-1:z2] = True
FillACS(m, ky_dim, kz_dim, y1, y2, z1, z2) ==
    [c \in DOMAIN m |->
        IF /\ c[1] \in SliceIndices(y1 - 1, y2, ky_dim)
           /\ c[2] \in SliceIndices(z1 - 1, z2, kz_dim)
        THEN TRUE ELSE m[c]]

\* variant: the lattice is anchored at the grid corner instead of the ACS corner
OnLatticeGridAnchored(ky, kz, y1, z1, ry, rz) ==
    (ky - 1) % ry = 0 /\ (kz - 1) % rz = 0

\* the residue test of the lattice outside the ACS rectangle (ky, kz 1-based)
OnLattice(ky, kz, y1, z1, ry, rz) ==
    (ky - y1) % ry = 0 /\ (kz - z1) % rz = 0

\* the double loop over kz, ky in 1..dim: skip the ACS rectangle, set lattice cells
Undersample(m, y1, y2, z1, z2, ry, rz) ==
    [c \in DOMAIN m |->
        LET ky == c[1] + 1
            kz == c[2] + 1
        IN  IF z1 <= kz /\ kz <= z2 /\ y1 <= ky /\ ky <= y2 THEN m[c]
            ELSE IF OnLattice(ky, kz, y1, z1, ry, rz) THEN TRUE
            ELSE m[c]]

\* the scan "for ky in range(ky_dim): for kz in range(kz_dim)" from linear position i
RECURSIVE ScanFrom(_, _, _, _)
ScanFrom(m, ky_dim, kz_dim, i) ==
    IF i >= ky_dim * kz_dim THEN <<>>
    ELSE LET ky == i \div kz_dim
             kz == i % kz_dim
             rest == ScanFrom(m, ky_dim, kz_dim, i + 1)
         IN  IF m[<<ky, kz>>]
             THEN << <<ky - (ky_dim \div 2), kz - (kz_dim \div 2)>> >> \o rest
             ELSE rest

\* variant: the scan starts one cell late
ExtractSamplesSkipFirst(m, ky_dim, kz_dim) == ScanFrom(m, ky_dim, kz_dim, 1)

\* variant: the scan runs kz in the outer loop and ky in the inner loop
RECURSIVE ScanColumnsFrom(_, _, _, _)
ScanColumnsFrom(m, ky_dim, kz_dim, i) ==
    IF i >= ky_dim * kz_dim THEN <<>>
    ELSE LET kz == i \div ky_dim
             ky == i % ky_dim
             rest == ScanColumnsFrom(m, ky_dim, kz_dim, i + 1)
         IN  IF m[<<ky, kz>>]
             THEN << <<ky - (ky_dim \div 2), kz - (kz_dim \div 2)>> >> \o rest
             ELSE rest

ExtractSamplesColumnMajor(m, ky_dim, kz_dim) == ScanColumnsFrom(m, ky_dim, kz_dim, 0)

ExtractSamples(m, ky_dim, kz_dim) == ScanFrom(m, ky_dim, kz_dim, 0)

grappa3D_pattern(size, ry, rz, ACSdim) ==
    LET ky_dim == size[1]
        kz_dim == size[2]
        y1 == AcsLow(ky_dim, ACSdim[1])
        y2 == AcsHigh(ky_dim, ACSdim[1])
        z1 == AcsLow(kz_dim, ACSdim[2])
        z2 == AcsHigh(kz_dim, ACSdim[2])
        m0 == Zeros(ky_dim, kz_dim)
        m1 == FillACS(m0, ky_dim, kz_dim, y1, y2, z1, z2)
        m2 == Undersample(m1, y1, y2, z1, z2, ry, rz)
    IN  [mask |-> m2, samples |-> ExtractSamples(m2, ky_dim, kz_dim)]

\* np.count_nonzero(mask)
count_nonzero(m) == Cardinality({c \in DOMAIN m : m[c]})

\* ------------------------------------------------------------- split32to16
\* An integer v is held as <<v >> 16, v & 0xFFFF>> so that counts up to and
\* beyond 2^32 - 1 stay within the checker's integers.
ToInt(n) == <<n \div TwoTo16, n % TwoTo16>>

\* variant: the sign test uses > instead of >=
split32to16StrictSign(v) ==
    LET high16 == v[1] % (Mask16 + 1)
        low16_unsigned == v[2]
        low16 == IF low16_unsigned > TwoTo15
                 THEN low16_unsigned - TwoTo16
                 ELSE low16_unsigned
    IN  <<low16, high16>>

split32to16(v) ==
    LET high16 == v[1] % (Mask16 + 1)          \* (int32_value >> 16) & 0xFFFF
        low16_unsigned == v[2]                 \* int32_value & 0xFFFF
        low16 == IF low16_unsigned >= TwoTo15
                 THEN low16_unsigned - TwoTo16
                 ELSE low16_unsigned
    IN  <<low16, high16>>

\* ------------------------------------------------------------ f"{value}\n"
DigitChar(d) == <<"0", "1", "2", "3", "4", "5", "6", "7", "8", "9">>[d + 1]

RECURSIVE Dec(_)
Dec(n) == IF n < 10 THEN <<DigitChar(n)>> ELSE Dec(n \div 10) \o <<DigitChar(n % 10)>>

FormatInt(n) == IF n < 0 THEN <<"-">> \o Dec(-n) ELSE Dec(n)

\* samples.min(axis=0), samples.max(axis=0)
ColMin(s, j) == CHOOSE x \in {s[i][j] : i \in 1..Len(s)} :
                    \A i \in 1..Len(s) : x <= s[i][j]
ColMax(s, j) == CHOOSE x \in {s[i][j] : i \in 1..Len(s)} :
                    \A i \in 1..Len(s) : x >= s[i][j]

\* ------------------------------------------------------------------ script
GridSizes == (1..MaxDim) \X (1..MaxDim)
AcsSizes == (1..(MaxDim + MaxAcsOver)) \X (1..(MaxDim + MaxAcsOver))
\* the user input of lines 12-15: <<size_of_kspace, acs_size, Ry, Rz>>; the
\* 8 x 8 grid with a 4 x 4 ACS region and Ry = Rz = 2 is always among them
UserInputs ==
    (GridSizes \X AcsSizes \X (1..MaxR) \X (1..MaxR))
        \cup {<< <<8, 8>>, <<4, 4>>, 2, 2 >>}

Unset ==
    /\ mask = <<>>
    /\ samples = <<>>
    /\ AF = <<0, 0>>
    /\ NE = 0
    /\ extent = <<>>
    /\ l16 = 0
    /\ h16 = 0
    /\ file = <<>>
    /\ k = 0

Init ==
    /\ \E u \in UserInputs :
        /\ size_of_kspace = u[1]
        /\ acs_size = u[2]
        /\ Ry = u[3]
        /\ Rz = u[4]
    /\ int32_value = <<0, 0>>
    /\ Unset
    /\ pc = "generate"

\* line 72
Generate ==
    /\ pc = "generate"
    /\ LET r == grappa3D_pattern(size_of_kspace, Ry, Rz, acs_size)
       IN  /\ mask' = r.mask
           /\ samples' = r.samples
    /\ pc' = "summary"
    /\ UNCHANGED <<size_of_kspace, acs_size, Ry, Rz, AF, NE, extent,
                   int32_value, l16, h16, file, k>>

\* lines 75-80, the mask has a true cell
Summary ==
    /\ pc = "summary"
    /\ count_nonzero(mask) # 0
    /\ AF' = <<size_of_kspace[1] * size_of_kspace[2], count_nonzero(mask)>>
    /\ NE' = Len(samples)
    /\ extent' = <<ColMin(samples, 1), ColMin(samples, 2),
                   ColMax(samples, 1), ColMax(samples, 2)>>
    /\ pc' = "open"
    /\ UNCHANGED <<size_of_kspace, acs_size, Ry, Rz, mask, samples,
                   int32_value, l16, h16, file, k>>

\* line 75 divides by count_nonzero(mask) = 0: the script stops there
SummaryZeroDivision ==
    /\ pc = "summary"
    /\ count_nonzero(mask) = 0
    /\ pc' = "ZeroDivisionError"
    /\ UNCHANGED <<size_of_kspace, acs_size, Ry, Rz, mask, samples, AF, NE,
                   extent, int32_value, l16, h16, file, k>>

\* lines 101-103: open the file, split the count
OpenAndSplit ==
    /\ pc = "open"
    /\ file' = <<>>
    /\ int32_value' = ToInt(NE)
    /\ l16' = split32to16(ToInt(NE))[1]
    /\ h16' = split32to16(ToInt(NE))[2]
    /\ pc' = "write_l16"
    /\ UNCHANGED <<size_of_kspace, acs_size, Ry, Rz, mask, samples, AF, NE,
                   extent, k>>

\* line 104
WriteLow ==
    /\ pc = "write_l16"
    /\ file' = Append(file, FormatInt(l16))
    /\ pc' = "write_h16"
    /\ UNCHANGED <<size_of_kspace, acs_size, Ry, Rz, mask, samples, AF, NE,
                   extent, int32_value, l16, h16, k>>

\* line 105
WriteHigh ==
    /\ pc = "write_h16"
    /\ file' = Append(file, FormatInt(h16))
    /\ k' = 0
    /\ pc' = "for"
    /\ UNCHANGED <<size_of_kspace, acs_size, Ry, Rz, mask, samples, AF, NE,
                   extent, int32_value, l16, h16>>

\* line 106, another sample
ForSample ==
    /\ pc = "for"
    /\ k < Len(samples)
    /\ pc' = "write_ky"
    /\ UNCHANGED <<size_of_kspace, acs_size, Ry, Rz, mask, samples, AF, NE,
                   extent, int32_value, l16, h16, file, k>>

\* variant: line 107 writes sample[1]
WriteKySwapped ==
    /\ pc = "write_ky"
    /\ file' = Append(file, FormatInt(samples[k + 1][2]))
    /\ pc' = "write_kz"
    /\ UNCHANGED <<size_of_kspace, acs_size, Ry, Rz, mask, samples, AF, NE,
                   extent, int32_value, l16, h16, k>>

\* line 107
WriteKy ==
    /\ pc = "write_ky"
    /\ file' = Append(file, FormatInt(samples[k + 1][1]))
    /\ pc' = "write_kz"
    /\ UNCHANGED <<size_of_kspace, acs_size, Ry, Rz, mask, samples, AF, NE,
                   extent, int32_value, l16, h16, k>>

\* line 108
WriteKz ==
    /\ pc = "write_kz"
    /\ file' = Append(file, FormatInt(samples[k + 1][2]))
    /\ k' = k + 1
    /\ pc' = "for"
    /\ UNCHANGED <<size_of_kspace, acs_size, Ry, Rz, mask, samples, AF, NE,
                   extent, int32_value, l16, h16>>

\* line 106 exhausted, the with block of line 102 closes the file
Close ==
    /\ pc = "for"
    /\ k >= Len(samples)
    /\ pc' = "done"
    /\ UNCHANGED <<size_of_kspace, acs_size, Ry, Rz, mask, samples, AF, NE,
                   extent, int32_value, l16, h16, file, k>>

Next ==
    \/ Generate
    \/ Summary
    \/ SummaryZeroDivision
    \/ OpenAndSplit
    \/ WriteLow
    \/ WriteHigh
    \/ ForSample
    \/ WriteKy
    \/ WriteKz
    \/ Close

Spec == Init /\ [][Next]_vars

\* ------------------------------------- split32to16 on arbitrary counts
Near(c) == {w \in (c - Radius)..(c + Radius) : 0 <= w /\ w <= Mask16}
Words == Near(0) \cup Near(TwoTo15) \cup Near(Mask16) \cup {1313, 40000}
UpperWords == Words \cup ((Mask16 + 1)..(Mask16 + MaxOver))

InitSplit ==
    /\ size_of_kspace = <<1, 1>>
    /\ acs_size = <<1, 1>>
    /\ Ry = 1
    /\ Rz = 1
    /\ Unset
    /\ int32_value \in UpperWords \X Words
    /\ pc = "call_split"

SplitCall ==
    /\ pc = "call_split"
    /\ l16' = split32to16(int32_value)[1]
    /\ h16' = split32to16(int32_value)[2]
    /\ pc' = "returned"
    /\ UNCHANGED <<size_of_kspace, acs_size, Ry, Rz, mask, samples, AF, NE,
                   extent, int32_value, file, k>>

NextSplit == SplitCall

SpecSplit == InitSplit /\ [][NextSplit]_vars


\* ------------------------------------------------------ views for the claims
ky_dim == size_of_kspace[1]
kz_dim == size_of_kspace[2]
y1 == AcsLow(ky_dim, acs_size[1])
y2 == AcsHigh(ky_dim, acs_size[1])
z1 == AcsLow(kz_dim, acs_size[2])
z2 == AcsHigh(kz_dim, acs_size[2])

\* 1-based cells of the grid, and the mask read at a 1-based cell
Cells == (1..ky_dim) \X (1..kz_dim)
MaskAt(c) == mask[<<c[1] - 1, c[2] - 1>>]
InAcs(c) == y1 <= c[1] /\ c[1] <= y2 /\ z1 <= c[2] /\ c[2] <= z2
TrueCells == {c \in Cells : MaskAt(c)}

\* grappa3D_pattern has just returned its mask and sample list (line 72);
\* no later line of the script assigns either
AtReturn == pc = "summary"
\* grappa3D_pattern has returned
Returned == pc \notin {"generate", "call_split", "returned"}
\* the summary of lines 75-80 has been computed
Summarised == Returned /\ pc \notin {"summary", "ZeroDivisionError"}
\* acs_size[i] <= grid_size[i] on both axes (all sizes of the model are positive)
ValidInput == acs_size[1] <= ky_dim /\ acs_size[2] <= kz_dim
\* a computed ACS bound lies outside the grid
BoundsOutside == y1 < 1 \/ y2 > ky_dim \/ z1 < 1 \/ z2 > kz_dim

\* c precedes d in the row-major (ky first, then kz) order
LexLess(c, d) == c[1] < d[1] \/ (c[1] = d[1] /\ c[2] < d[2])

\* a reader of one decimal-text line
DigitVal(ch) == CHOOSE d \in 0..9 : DigitChar(d) = ch
RECURSIVE ParseNat(_)
ParseNat(t) ==
    IF Len(t) = 0 THEN 0
    ELSE 10 * ParseNat(SubSeq(t, 1, Len(t) - 1)) + DigitVal(t[Len(t)])
ParseInt(t) == IF t[1] = "-" THEN 0 - ParseNat(Tail(t)) ELSE ParseNat(t)

\* the scenario of the specification: 8 x 8 grid, 4 x 4 ACS, Ry = Rz = 2
Scenario ==
    size_of_kspace = <<8, 8>> /\ acs_size = <<4, 4>> /\ Ry = 2 /\ Rz = 2

\* -------------------------------------------------------------------- claims

\* C1: for valid sizes (acs_size <= grid_size on both axes) every cell of the
\* ACS rectangle [y1,y2] x [z1,z2] is true in the returned mask.
C1_AcsFullySampled ==
    (AtReturn /\ ValidInput) => \A c \in Cells : InAcs(c) => MaskAt(c)

\* C2: for valid sizes, a cell outside the ACS rectangle is true in the
\* returned mask if and only if (ky - y1) mod Ry = 0 and (kz - z1) mod Rz = 0.
C2_OutsideIsLattice ==
    (AtReturn /\ ValidInput) =>
        \A c \in Cells :
            ~InAcs(c) =>
                (MaskAt(c) <=> ((c[1] - y1) % Ry = 0 /\ (c[2] - z1) % Rz = 0))

C2_Witness ==
    /\ Scenario
    /\ pc = "summary"
    /\ \E c \in Cells : ~InAcs(c) /\ MaskAt(c)
    /\ \E c \in Cells : ~InAcs(c) /\ ~MaskAt(c)

\* C3: the sample list has exactly one entry per true cell of the mask, NE is
\* that number, and AF is (ky_dim * kz_dim) / NE.
C3_OneSamplePerTrueCell ==
    /\ Returned => Len(samples) = Cardinality(TrueCells)
    /\ Summarised =>
        /\ NE = Cardinality(TrueCells)
        /\ AF = <<ky_dim * kz_dim, NE>>

C3_Witness ==
    /\ pc = "open"
    /\ NE >= 2
    /\ NE < ky_dim * kz_dim
    /\ AF[2] = NE

\* C4: entry k of the sample list is the k-th true cell of the mask in
\* row-major order, shifted by (floor(ky_dim/2), floor(kz_dim/2)), and
\* consecutive entries are strictly increasing in lexicographic order.
C4_RowMajorOrder ==
    AtReturn =>
        /\ \A i \in 1..Len(samples) :
            LET c == <<samples[i][1] + (ky_dim \div 2) + 1,
                       samples[i][2] + (kz_dim \div 2) + 1>>
            IN  /\ c \in TrueCells
                /\ Cardinality({d \in TrueCells : LexLess(d, c)}) = i - 1
        /\ \A i \in 1..(Len(samples) - 1) : LexLess(samples[i], samples[i + 1])

C4_Witness ==
    /\ pc = "summary"
    /\ Len(samples) >= 3
    /\ \E i \in 1..(Len(samples) - 1) : samples[i][1] < samples[i + 1][1]
    /\ \E i \in 1..(Len(samples) - 1) :
        samples[i][1] = samples[i + 1][1] /\ samples[i][2] < samples[i + 1][2]

\* C5: for a count in [0, 2^32 - 1], split32to16 returns low16 in
\* [-32768, 32767] and high16 in [0, 65535], and high16 * 65536 +
\* (low16 mod 65536) is the count; 1313 -> (1313, 0), 40000 -> (-25536, 0).
C5_SplitRoundTrip ==
    (pc = "returned" /\ int32_value[1] <= Mask16) =>
        /\ l16 \in (0 - 32768)..32767
        /\ h16 \in 0..65535
        /\ <<h16, l16 % 65536>> = int32_value
        /\ int32_value = <<0, 1313>> => (l16 = 1313 /\ h16 = 0)
        /\ int32_value = <<0, 40000>> => (l16 = 0 - 25536 /\ h16 = 0)

C5_Witness ==
    /\ pc = "returned"
    /\ int32_value = <<0, 40000>>
    /\ l16 = 0 - 25536
    /\ h16 = 0

\* C6: the export writes the signed low16 of the count, then the unsigned
\* high16, then ky and kz of every sample in sample-list order, each line
\* appended after the previous ones; the finished file has 2 + 2*NE lines.
C6_LinesInPlace ==
    Summarised =>
        /\ Len(file) <= 2 + 2 * NE
        /\ Len(file) >= 1 =>
            /\ ParseInt(file[1]) \in (0 - 32768)..32767
            /\ (ParseInt(file[1]) - NE) % 65536 = 0
        /\ Len(file) >= 2 => ParseInt(file[2]) = (NE \div 65536) % 65536
        /\ \A j \in 0..(NE - 1) :
            /\ Len(file) >= 3 + 2 * j => ParseInt(file[3 + 2 * j]) = samples[j + 1][1]
            /\ Len(file) >= 4 + 2 * j => ParseInt(file[4 + 2 * j]) = samples[j + 1][2]
        /\ pc = "done" => Len(file) = 2 + 2 * NE

C6_ExportOrder ==
    /\ []C6_LinesInPlace
    /\ [][\/ file' = file
          \/ Len(file') = Len(file) + 1 /\ SubSeq(file', 1, Len(file)) = file]_vars

C6_Witness ==
    /\ pc = "done"
    /\ NE >= 2
    /\ Len(file) = 2 + 2 * NE
    /\ file[3][1] = "-"
    /\ samples[NE] # samples[1]

\* C7: a count above 2^32 - 1 is refused with an EncodingError: split32to16
\* never returns a pair for it.
C7_OverflowRefused ==
    int32_value[1] > Mask16 => pc # "returned"

\* C8: when a computed ACS bound falls outside the grid, grappa3D_pattern
\* fails with InvalidParameter and returns no mask or sample list.
C8_OutOfGridRefused ==
    (BoundsOutside /\ Returned) =>
        pc = "InvalidParameter"

\* C9: for valid sizes the ACS rectangle has the requested dimensions,
\* y2 - y1 + 1 = acs_size[0] and z2 - z1 + 1 = acs_size[1]; in the 8 x 8
\* scenario it is [3..6] x [3..6].
C9_AcsDimensions ==
    (AtReturn /\ ValidInput) =>
        /\ y2 - y1 + 1 = acs_size[1]
        /\ z2 - z1 + 1 = acs_size[2]
        /\ Scenario => <<y1, y2, z1, z2>> = <<3, 6, 3, 6>>

\* C10: for valid input the returned mask has a true cell, so the summary
\* divides by a non-zero count and the sample list is not empty.
C10_MaskNotEmpty ==
    (Returned /\ ValidInput) =>
        /\ Cardinality(TrueCells) >= 1
        /\ Len(samples) >= 1
        /\ pc # "ZeroDivisionError"

====
